---- MODULE Spec2Model ----
(***************************************************************************)
(* A model of the two model adapters of AI Studio (ImageClassifierModel    *)
(* and TextToVideoModel, both extending AIModelBase) and of the frame      *)
(* synthesizer TextToVideoModel._create_animation_frames.                  *)
(*                                                                         *)
(* Floating-point values of the frame synthesizer are modelled as exact    *)
(* rationals <<numerator, denominator>>; int() is truncation towards zero. *)
(* Within the bounds used here the exact value and the IEEE double value   *)
(* truncate to the same integer.                                           *)
(***************************************************************************)
EXTENDS Integers, Sequences, FiniteSets, TLC

VARIABLES
    loaded,      \* AIModelBase._loaded, per adapter
    model,       \* AIModelBase._model, per adapter: "None", "created", "ready"
    top_k,       \* ImageClassifierModel._top_k
    num_frames,  \* TextToVideoModel._num_frames
    fps,         \* TextToVideoModel._fps
    num_inference_steps,  \* TextToVideoModel._num_inference_steps
    pc,          \* position of the caller inside load_model, or "idle"
    self,        \* the adapter whose load_model is executing, or "none"
    last,        \* the outcome of the most recent load_model / predict call
    disk,        \* the two fixed output files of TextToVideoModel.predict
    fs_out,      \* the outcome of the most recent _create_animation_frames call
    client,      \* the adapter that the calls and requests of this behaviour address
    models_loaded,        \* AIGUIApplication.models_loaded
    selected_model,       \* AIGUIApplication._selected_model
    selected_image_path,  \* AIGUIApplication._selected_image_path
    text_input,           \* the prompt text box: its content and whether it is enabled
    progress_bar,         \* the value of the progress bar
    ops,                  \* the load and run operations dispatched so far, with their workers
    timers,               \* the callbacks scheduled with after() and not yet executed
    output_display,       \* the first line of the output log, <<>> when the log is empty
    showwarning           \* the message of the messagebox.showwarning dialog on screen

appvars == <<models_loaded, selected_model, selected_image_path, text_input,
             progress_bar, ops, timers, output_display, showwarning>>

vars == <<loaded, model, top_k, num_frames, fps, num_inference_steps, pc, self, last, disk,
          fs_out, client, appvars>>

(***************************************************************************)
(* Bounds of the model.                                                    *)
(***************************************************************************)
MaxFrames == 4
MaxSide == 3
MaxK == 2
MaxRaw == 3
MaxFps == 2
MaxText == 2
MaxOps == 2
MaxSteps == 2

(***************************************************************************)
(* Program constants.                                                      *)
(***************************************************************************)
DefaultTopK == 3
DefaultNumFrames == 24
DefaultFps == 8
DefaultSteps == 20
BaseSide == 512
\* 0.2 in "scale = 1.0 + (ease * 0.2)" is 1/ZoomDen
ZoomDen == 5
\* 0.5 in "pan_x = int((new_width - width) * 0.5)" is 1/PanDen
PanDen == 2
\* 0.05 in "brightness_factor = 1.0 + (np.sin(progress * np.pi) * 0.05)" is 1/BrightDen
BrightDen == 20

Adapters == {"image", "text_to_video"}

Min(a, b) == IF a <= b THEN a ELSE b

\* Python int(): truncation towards zero of the rational n/d, d > 0
Trunc(n, d) == IF n >= 0 THEN n \div d ELSE -((-n) \div d)

(***************************************************************************)
(* TextToVideoModel._create_animation_frames                               *)
(***************************************************************************)

\* a mutant of progress: divides by the frame count instead of count - 1
progress_off_by_one(i, n) == <<i, n>>

\* progress = i / (self._num_frames - 1), as the rational <<i, n - 1>>
progress(i, n) == <<i, n - 1>>

\* a mutant of ease: the easing curve 3p - 2p^2 is not monotone on [0, 1]
ease_not_monotone(p) == <<p[1] * (3 * p[2] - 2 * p[1]), p[2] * p[2]>>

\* ease = progress * progress * (3.0 - 2.0 * progress)
ease(p) == <<p[1] * p[1] * (3 * p[2] - 2 * p[1]), p[2] * p[2] * p[2]>>

\* scale = 1.0 + (ease * 0.2)
scale(e) == <<ZoomDen * e[2] + e[1], ZoomDen * e[2]>>

\* int(width * scale), also used for the height
new_side(side, s) == Trunc(side * s[1], s[2])

\* a mutant of pan: the offset is taken from the new side alone
pan_uncentered(new, side) == Trunc(new, PanDen)

\* int((new_width - width) * 0.5), also used for the height
pan(new, side) == Trunc(new - side, PanDen)

\* the box handed to zoomed.crop(...)
crop_box(pan_x, pan_y, width, height, new_width, new_height) ==
    <<pan_x, pan_y, pan_x + width, pan_y + height>>

\* the size of the image Image.crop returns for a box
crop_size(box) == <<box[3] - box[1], box[4] - box[2]>>

\* a mutant of sin_pi: the angle itself, which grows up to the last frame
sin_pi_unfolded(p) == p

\* np.sin(progress * np.pi) for 0 <= progress <= 1.  The sine is symmetric
\* about 1/2 and strictly increasing up to it, so its value is kept exactly as
\* the distance of progress from the nearer end, min(p, 1 - p), a rational in
\* [0, 1/2]: 0 is sin = 0 (in floating point 1.0 + sin(pi) * 0.05 is 1.0),
\* 1/2 is sin = 1, and a smaller distance is a smaller sine.
sin_pi(p) == IF 2 * p[1] <= p[2] THEN p ELSE <<p[2] - p[1], p[2]>>

\* brightness_factor = 1.0 + (np.sin(progress * np.pi) * 0.05)
brightness_factor(p) == [ base |-> 1, amplitude |-> <<1, BrightDen>>, sine |-> sin_pi(p) ]

\* one pass of the loop body for frame index i (0-based); n > 1
animation_frame(size, i, n) ==
    LET width      == size[1]
        height     == size[2]
        p          == progress(i, n)
        e          == ease(p)
        s          == scale(e)
        new_width  == new_side(width, s)
        new_height == new_side(height, s)
        pan_x      == pan(new_width, width)
        pan_y      == pan(new_height, height)
        box        == crop_box(pan_x, pan_y, width, height, new_width, new_height)
    IN  [ index      |-> i,
          progress   |-> p,
          ease       |-> e,
          scale      |-> s,
          resized    |-> <<new_width, new_height>>,
          pan        |-> <<pan_x, pan_y>>,
          box        |-> box,
          size       |-> crop_size(box),
          brightness |-> brightness_factor(p) ]

\* a mutant of create_animation_frames: the loop runs one frame short
create_animation_frames_short(size, n) ==
    IF n >= 1 /\ n - 1 = 0
    THEN [ raised |-> "ZeroDivisionError", frames |-> <<>> ]
    ELSE [ raised |-> "none",
           frames |-> [ j \in 1..(n - 1) |-> animation_frame(size, j - 1, n) ] ]

\* the whole function: "for i in range(n)"; i / (n - 1) raises when n = 1
create_animation_frames(size, n) ==
    IF n >= 1 /\ n - 1 = 0
    THEN [ raised |-> "ZeroDivisionError", frames |-> <<>> ]
    ELSE [ raised |-> "none",
           frames |-> [ j \in 1..n |-> animation_frame(size, j - 1, n) ] ]

(***************************************************************************)
(* The record of a call: what the caller passed, what the environment did  *)
(* where the call consulted it, and what came back.                        *)
(***************************************************************************)
NoInput == [ type |-> "none", chars |-> <<>> ]
NullEnv == [ fail |-> "none", partial |-> FALSE, results |-> <<>> ]
Untouched == [ video |-> "untouched", preview |-> "untouched" ]

Outcome(kind, exc, msg, cause, value, calls, files) ==
    [ kind |-> kind, exc |-> exc, msg |-> msg, cause |-> cause, value |-> value,
      pipeline_calls |-> calls, files |-> files ]

Return(value, calls, files) == Outcome("return", "none", "none", "none", value, calls, files)
Raise(exc, msg, cause, calls, files) == Outcome("raise", exc, msg, cause, <<>>, calls, files)
Running == Outcome("running", "none", "none", "none", <<>>, 0, Untouched)

CallRecord(op, a, input, env, ld, k, n, f, out) ==
    [ op |-> op, adapter |-> a, input |-> input, env |-> env, was_loaded |-> ld,
      k |-> k, n |-> n, f |-> f, out |-> out ]

\* a call without input that returned None
Returned(op, a) ==
    CallRecord(op, a, NoInput, NullEnv, FALSE, 0, 0, 0, Return(<<>>, 0, Untouched))

NoCall == Returned("none", "none")

(***************************************************************************)
(* Configuration setters                                                   *)
(***************************************************************************)
FrameArgs == (-1)..MaxFrames
\* 20 fps: a rate at which frames / fps is not a double and lies half way
\* between two tenths
FpsArgs == ((-1)..MaxFps) \cup {20}
TopKArgs == (-1)..MaxK
StepArgs == (-1)..MaxSteps

\* TextToVideoModel.set_num_frames
set_num_frames(frames) ==
    /\ pc = "idle"
    /\ client = "text_to_video"
    /\ num_frames' = IF frames > 0 THEN frames ELSE num_frames
    /\ last' = [ Returned("set_num_frames", "text_to_video") EXCEPT !.n = frames ]
    /\ UNCHANGED <<loaded, model, top_k, fps, pc, self, disk, fs_out, client, num_inference_steps, appvars>>

\* a mutant of set_fps: the fps > 0 guard is missing
set_fps_unguarded(f) ==
    /\ pc = "idle"
    /\ client = "text_to_video"
    /\ fps' = f
    /\ last' = [ Returned("set_fps", "text_to_video") EXCEPT !.f = f ]
    /\ UNCHANGED <<loaded, model, top_k, num_frames, pc, self, disk, fs_out, client, num_inference_steps, appvars>>

\* TextToVideoModel.set_inference_steps
set_inference_steps(steps) ==
    /\ pc = "idle"
    /\ client = "text_to_video"
    /\ num_inference_steps' = IF steps > 0 THEN steps ELSE num_inference_steps
    /\ last' = [ Returned("set_inference_steps", "text_to_video") EXCEPT !.k = steps ]
    /\ UNCHANGED <<loaded, model, top_k, num_frames, fps, pc, self, disk, fs_out, client, appvars>>

\* TextToVideoModel.set_fps
set_fps(f) ==
    /\ pc = "idle"
    /\ client = "text_to_video"
    /\ fps' = IF f > 0 THEN f ELSE fps
    /\ last' = [ Returned("set_fps", "text_to_video") EXCEPT !.f = f ]
    /\ UNCHANGED <<loaded, model, top_k, num_frames, pc, self, disk, fs_out, client, num_inference_steps, appvars>>

\* a mutant of set_top_k: the k > 0 guard is missing
set_top_k_unguarded(k) ==
    /\ pc = "idle"
    /\ client = "image"
    /\ top_k' = k
    /\ last' = [ Returned("set_top_k", "image") EXCEPT !.k = k ]
    /\ UNCHANGED <<loaded, model, num_frames, fps, pc, self, disk, fs_out, client, num_inference_steps, appvars>>

\* ImageClassifierModel.set_top_k; the call record keeps the argument in k
set_top_k(k) ==
    /\ pc = "idle"
    /\ client = "image"
    /\ top_k' = IF k > 0 THEN k ELSE top_k
    /\ last' = [ Returned("set_top_k", "image") EXCEPT !.k = k ]
    /\ UNCHANGED <<loaded, model, num_frames, fps, pc, self, disk, fs_out, client, num_inference_steps, appvars>>

(***************************************************************************)
(* Initial state: AIModelBase.__init__ and the two subclass constructors.  *)
(***************************************************************************)
\* Texts are written over the characters " " and "a", where "a" stands for
\* any character that is not white space.
\* the prompt the text box starts with
DefaultPrompt == <<"a", " ", "a">>
\* self._selected_image_path = None
NoPath == "None"
\* no warning has been shown
NoWarning == ""

NoFrames ==
    [ called |-> FALSE, size |-> <<0, 0>>, n |-> 0, raised |-> "none", frames |-> <<>> ]

Init ==
    /\ loaded = [ a \in Adapters |-> FALSE ]
    /\ model = [ a \in Adapters |-> "None" ]
    /\ top_k = DefaultTopK
    /\ num_frames = DefaultNumFrames
    /\ fps = DefaultFps
    /\ num_inference_steps = DefaultSteps
    /\ pc = "idle"
    /\ self = "none"
    /\ last = NoCall
    /\ disk = [ video |-> "absent", preview |-> "absent" ]
    /\ fs_out = NoFrames
    /\ client \in Adapters
    /\ models_loaded = [ a \in Adapters |-> FALSE ]
    /\ selected_model = "Text-to-Video"
    /\ selected_image_path = NoPath
    /\ text_input = [ chars |-> DefaultPrompt, state |-> "normal" ]
    /\ progress_bar = 0
    /\ ops = <<>>
    /\ timers = <<>>
    /\ output_display = <<>>
    /\ showwarning = NoWarning

(***************************************************************************)
(* The frame synthesizer on its own: the configured frame count is set     *)
(* through set_num_frames and the function is applied to images of         *)
(* bounded sizes.                                                          *)
(***************************************************************************)
Sides == (1..MaxSide) \cup {100, BaseSide}

synthesize(width, height) ==
    LET r == create_animation_frames(<<width, height>>, num_frames)
    IN  /\ fs_out' = [ called |-> TRUE, size |-> <<width, height>>, n |-> num_frames,
                       raised |-> r.raised, frames |-> r.frames ]
        /\ client = "text_to_video"
        /\ last' = Returned("_create_animation_frames", "text_to_video")
        /\ UNCHANGED <<loaded, model, top_k, num_frames, fps, pc, self, disk, client, num_inference_steps, appvars>>

NextFrames ==
    \/ \E n \in FrameArgs : set_num_frames(n)
    \/ \E w \in Sides, h \in Sides : synthesize(w, h)

SpecFrames == Init /\ [][NextFrames]_vars

(***************************************************************************)
(* load_model of both adapters, one action per statement that can fail or  *)
(* that writes the adapter's state.                                        *)
(***************************************************************************)

\* the caller enters load_model and its try block
call_load_model(a) ==
    /\ pc = "idle"
    /\ a = client
    /\ pc' = "load_pipeline"
    /\ self' = a
    /\ last' = CallRecord("load_model", a, NoInput, NullEnv, loaded[a], 0, 0, 0, Running)
    /\ UNCHANGED <<loaded, model, top_k, num_frames, fps, disk, fs_out, client, num_inference_steps, appvars>>

\* self._model = pipeline(...)  /  self._model = DiffusionPipeline.from_pretrained(...)
\* ok: whether the third-party constructor returned; when it raises nothing is assigned
load_pipeline(ok) ==
    /\ pc = "load_pipeline"
    /\ IF ok
       THEN /\ model' = [model EXCEPT ![self] = IF self = "image" THEN "ready" ELSE "created"]
            /\ pc' = IF self = "image" THEN "load_done" ELSE "load_to_device"
       ELSE /\ model' = model
            /\ pc' = "load_except"
    /\ UNCHANGED <<loaded, top_k, num_frames, fps, self, last, disk, fs_out, client, num_inference_steps, appvars>>

\* self._model = self._model.to(device), text-to-video only
load_to_device(ok) ==
    /\ pc = "load_to_device"
    /\ IF ok
       THEN /\ model' = [model EXCEPT ![self] = "ready"]
            /\ pc' = "load_done"
       ELSE /\ model' = model
            /\ pc' = "load_except"
    /\ UNCHANGED <<loaded, top_k, num_frames, fps, self, last, disk, fs_out, client, num_inference_steps, appvars>>

\* self._loaded = True; return True
load_return_true ==
    /\ pc = "load_done"
    /\ loaded' = [loaded EXCEPT ![self] = TRUE]
    /\ last' = [last EXCEPT !.out = Return(<<TRUE>>, 0, Untouched)]
    /\ pc' = "idle"
    /\ self' = "none"
    /\ UNCHANGED <<model, top_k, num_frames, fps, disk, fs_out, client, num_inference_steps, appvars>>

\* a mutant of load_return_false: the handler forgets self._loaded = False
load_return_false_keeps_flag ==
    /\ pc = "load_except"
    /\ loaded' = loaded
    /\ last' = [last EXCEPT !.out = Return(<<FALSE>>, 0, Untouched)]
    /\ pc' = "idle"
    /\ self' = "none"
    /\ UNCHANGED <<model, top_k, num_frames, fps, disk, fs_out, client, num_inference_steps, appvars>>

\* except Exception: self._loaded = False; return False
load_return_false ==
    /\ pc = "load_except"
    /\ loaded' = [loaded EXCEPT ![self] = FALSE]
    /\ last' = [last EXCEPT !.out = Return(<<FALSE>>, 0, Untouched)]
    /\ pc' = "idle"
    /\ self' = "none"
    /\ UNCHANGED <<model, top_k, num_frames, fps, disk, fs_out, client, num_inference_steps, appvars>>

(***************************************************************************)
(* ImageClassifierModel.predict                                            *)
(***************************************************************************)
MsgNotLoaded == "Model not loaded. Call load_model() first."
MsgImageInput == "Input must be a file path (string) or PIL Image"
MsgTextInput == "Input must be a non-empty text prompt"
MsgPrediction == "Prediction failed: "
MsgVideo == "Video generation failed: "

\* f"{result['score'] * 100:.2f}%" of a score given in units of 1/10000:
\* the percentage with its two decimals
confidence(score) == [ whole |-> score \div 100, hundredths |-> score % 100 ]

\* results[:k]
slice(results, k) ==
    IF k >= 0 THEN SubSeq(results, 1, Min(k, Len(results)))
    ELSE SubSeq(results, 1, Len(results) + k)

\* a mutant of format_results: ranks count from 0 (enumerate without the + 1)
format_results_zero_based(results, k) ==
    [ j \in 1..Len(slice(results, k)) |->
        [ rank       |-> j - 1,
          label      |-> slice(results, k)[j].label,
          confidence |-> confidence(slice(results, k)[j].score) ] ]

\* the loop "for i, result in enumerate(results[:self._top_k])"; j = i + 1
format_results(results, k) ==
    [ j \in 1..Len(slice(results, k)) |->
        [ rank       |-> (j - 1) + 1,
          label      |-> slice(results, k)[j].label,
          confidence |-> confidence(slice(results, k)[j].score) ] ]

\* the try block: open or accept the image, run the pipeline once, format
image_try(k, image_input, env) ==
    IF image_input.type = "str" /\ env.fail = "open"
    THEN Raise("Exception", MsgPrediction, "open", 0, Untouched)
    ELSE IF image_input.type \notin {"str", "Image"}
    THEN Raise("Exception", MsgPrediction, MsgImageInput, 0, Untouched)
    ELSE IF env.fail = "pipeline"
    THEN Raise("Exception", MsgPrediction, "pipeline", 1, Untouched)
    ELSE Return(format_results(env.results, k), 1, Untouched)

\* a mutant of image_predict: the loaded check is missing
image_predict_unchecked(ld, k, image_input, env) ==
    image_try(k, image_input, env)

\* ld: self._loaded, k: self._top_k
image_predict(ld, k, image_input, env) ==
    IF ~ld
    THEN Raise("Exception", MsgNotLoaded, "none", 0, Untouched)
    ELSE image_try(k, image_input, env)

(***************************************************************************)
(* TextToVideoModel.predict                                                *)
(***************************************************************************)
Whitespace == {" "}

RECURSIVE lstrip(_)
lstrip(s) == IF s # <<>> /\ Head(s) \in Whitespace THEN lstrip(Tail(s)) ELSE s

RECURSIVE rstrip(_)
rstrip(s) ==
    IF s # <<>> /\ s[Len(s)] \in Whitespace THEN rstrip(SubSeq(s, 1, Len(s) - 1)) ELSE s

\* str.strip()
strip(s) == rstrip(lstrip(s))

\* a mutant of duration_tenths: the quotient is cut, not rounded
duration_tenths_cut(frames, f) == (10 * frames) \div f

\* the exponent of the double a / b: the e with 2^e <= a / b < 2^(e + 1)
RECURSIVE exponent(_, _)
exponent(a, b) ==
    IF a >= 2 * b THEN exponent(a, 2 * b) + 1
    ELSE IF a >= b THEN 0
    ELSE exponent(2 * a, b) - 1

\* (x * 2^s) % b
RECURSIVE shifted_remainder(_, _, _)
shifted_remainder(x, s, b) ==
    IF s = 0 THEN x ELSE shifted_remainder((2 * x) % b, s - 1, b)

\* the sign of the error of the double a / b, whose mantissa has 53 bits:
\* 0 when the quotient is a double, 1 when the double lies above it, -1 when
\* it lies below
division_error(a, b) ==
    LET r == shifted_remainder(a % b, 52 - exponent(a, b), b)
    IN  IF r = 0 THEN 0 ELSE IF 2 * r > b THEN 1 ELSE -1

\* f"{duration:.1f}" of duration = frames / fps, in tenths of a second: the
\* tenth nearest to the double; when the quotient lies half way between two
\* tenths, the double decides by its error, and the even tenth is taken when
\* the double is the quotient itself
duration_tenths(frames, f) ==
    LET q == (10 * frames) \div f
        r == (10 * frames) % f
        e == division_error(frames, f)
    IN  IF 2 * r > f THEN q + 1
        ELSE IF 2 * r < f THEN q
        ELSE IF e > 0 \/ (e = 0 /\ q % 2 = 1) THEN q + 1
        ELSE q

\* a mutant of result_info: the record reports the default rate, not self._fps
result_info_default_fps(frames, f) ==
    [ status     |-> "success",
      message    |-> "Video generated successfully!",
      file       |-> "generated_video.mp4",
      preview    |-> "generated_video_preview.png",
      frames     |-> Len(frames),
      fps        |-> DefaultFps,
      duration   |-> duration_tenths(Len(frames), f),
      format     |-> "MP4 video file",
      resolution |-> "512x512" ]

\* the result_info dictionary
result_info(frames, f) ==
    [ status     |-> "success",
      message    |-> "Video generated successfully!",
      file       |-> "generated_video.mp4",
      preview    |-> "generated_video_preview.png",
      frames     |-> Len(frames),
      fps        |-> f,
      duration   |-> duration_tenths(Len(frames), f),
      format     |-> "MP4 video file",
      resolution |-> "512x512" ]

\* a mutant of video_try: a failure to save the preview is swallowed
video_try_swallows(n, f, text_prompt, env) ==
    LET r == create_animation_frames(<<BaseSide, BaseSide>>, n)
    IN  IF env.fail = "pipeline"
        THEN Raise("Exception", MsgVideo, "pipeline", 1, Untouched)
        ELSE IF r.raised # "none"
        THEN Raise("Exception", MsgVideo, r.raised, 1, Untouched)
        ELSE IF env.fail = "export"
        THEN Raise("Exception", MsgVideo, "export", 1,
                   [ video   |-> IF env.partial THEN "partial" ELSE "untouched",
                     preview |-> "untouched" ])
        ELSE IF env.fail = "preview"
        THEN Return(<<result_info(r.frames, f)>>, 1,
                   [ video   |-> "complete",
                     preview |-> IF env.partial THEN "partial" ELSE "untouched" ])
        ELSE Return(<<result_info(r.frames, f)>>, 1,
                    [ video |-> "complete", preview |-> "complete" ])

\* the try block: text-to-image, frame synthesis, video export, preview save
video_try(n, f, text_prompt, env) ==
    LET r == create_animation_frames(<<BaseSide, BaseSide>>, n)
    IN  IF env.fail = "pipeline"
        THEN Raise("Exception", MsgVideo, "pipeline", 1, Untouched)
        ELSE IF r.raised # "none"
        THEN Raise("Exception", MsgVideo, r.raised, 1, Untouched)
        ELSE IF env.fail = "export"
        THEN Raise("Exception", MsgVideo, "export", 1,
                   [ video   |-> IF env.partial THEN "partial" ELSE "untouched",
                     preview |-> "untouched" ])
        ELSE IF env.fail = "preview"
        THEN Raise("Exception", MsgVideo, "preview", 1,
                   [ video   |-> "complete",
                     preview |-> IF env.partial THEN "partial" ELSE "untouched" ])
        ELSE Return(<<result_info(r.frames, f)>>, 1,
                    [ video |-> "complete", preview |-> "complete" ])

\* ld: self._loaded, n: self._num_frames, f: self._fps
video_predict(ld, n, f, text_prompt, env) ==
    IF ~ld
    THEN Raise("Exception", MsgNotLoaded, "none", 0, Untouched)
    ELSE IF text_prompt.type # "str" \/ strip(text_prompt.chars) = <<>>
    THEN Raise("ValueError", MsgTextInput, "none", 0, Untouched)
    ELSE video_try(n, f, text_prompt, env)


(***************************************************************************)
(* get_model_info of the base class and of both adapters                   *)
(***************************************************************************)
BaseKeys == {"Model Name", "Category", "Description", "Status"}

\* the arguments both constructors hand to AIModelBase.__init__
_model_name(a) ==
    IF a = "image" THEN "Vision Transformer (ViT)" ELSE "Text-to-Video (Lightweight)"
_category(a) ==
    IF a = "image" THEN "Computer Vision - Image Classification" ELSE "Video Generation"
_description(a) ==
    IF a = "image"
    THEN "Vision Transformer (ViT) is a neural network architecture that applies transformer mechanisms to image classification. It divides images into patches and processes them as sequences, achieving state-of-the-art performance on image recognition tasks."
    ELSE "Generates 2-3 second video clips from text. Uses lightweight text-to-image generation with smooth animation effects. Optimized for CPU."

\* a mutant of base_model_info: the status is reported under the key "status"
base_model_info_lowercase(a, ld) ==
    ("Model Name" :> _model_name(a)) @@ ("Category" :> _category(a))
    @@ ("Description" :> _description(a))
    @@ ("status" :> IF ld THEN "Loaded" ELSE "Not Loaded")

\* AIModelBase.get_model_info
base_model_info(a, ld) ==
    ("Model Name" :> _model_name(a)) @@ ("Category" :> _category(a))
    @@ ("Description" :> _description(a))
    @@ ("Status" :> IF ld THEN "Loaded" ELSE "Not Loaded")

\* info[key] = value
setitem(info, key, value) == (key :> value) @@ info

\* ImageClassifierModel.get_model_info
image_model_info(ld, k) ==
    setitem(setitem(setitem(base_model_info("image", ld),
        "Top K Predictions", k),
        "Model Type", "Vision Transformer (Patch-based)"),
        "Input Size", "224x224 pixels")

\* TextToVideoModel.get_model_info; "Duration" is f"{frames / fps:.1f}s", in tenths
video_model_info(ld, steps, n, f) ==
    setitem(setitem(setitem(setitem(setitem(setitem(setitem(
        base_model_info("text_to_video", ld),
        "Model Type", "Text-to-Image + Animation"),
        "Inference Steps", steps),
        "Number of Frames", n),
        "FPS", f),
        "Duration", duration_tenths(n, f)),
        "Output Format", "MP4 Video (512x512)"),
        "Memory Usage", "Low (CPU optimized)")

\* get_model_info() of adapter a in the current state
get_model_info(a) ==
    IF a = "image" THEN image_model_info(loaded[a], top_k)
    ELSE video_model_info(loaded[a], num_inference_steps, num_frames, fps)

(***************************************************************************)
(* The adapters under one sequential caller: every call of predict and of  *)
(* the setters is one step, load_model is a sequence of steps.  The        *)
(* environment (the third-party pipelines, the file system, the encoder)   *)
(* is drawn where the call consults it.                                    *)
(***************************************************************************)
Chars == {" ", "a"}
Texts == UNION { [1..len -> Chars] : len \in 0..MaxText }
TextInputs == { [ type |-> "str", chars |-> t ] : t \in Texts } \cup { [ type |-> "int", chars |-> <<>> ] }
ImageInputs ==
    { [ type |-> "str", chars |-> <<"a">> ], [ type |-> "Image", chars |-> <<>> ],
      [ type |-> "int", chars |-> <<>> ] }

\* raw pipeline output: records ranked by descending score (in units of 1/10000)
RawEntries ==
    { [ label |-> "cat", score |-> 8734 ], [ label |-> "dog", score |-> 633 ],
      [ label |-> "fox", score |-> 633 ] }
Raws ==
    { r \in UNION { [1..len -> RawEntries] : len \in 0..MaxRaw } :
        \A j \in 1..(Len(r) - 1) : r[j].score >= r[j + 1].score }

ImageEnvs(ld, image_input) ==
    IF ~ld \/ image_input.type \notin {"str", "Image"}
    THEN { NullEnv }
    ELSE { [ NullEnv EXCEPT !.fail = x ] :
             x \in IF image_input.type = "str" THEN {"open", "pipeline"} ELSE {"pipeline"} }
         \cup { [ NullEnv EXCEPT !.results = r ] : r \in Raws }

VideoEnvs(ld, text_prompt) ==
    IF ~ld \/ text_prompt.type # "str" \/ strip(text_prompt.chars) = <<>>
    THEN { NullEnv }
    ELSE { NullEnv, [ NullEnv EXCEPT !.fail = "pipeline" ] }
         \cup { [ NullEnv EXCEPT !.fail = x, !.partial = b ] :
                  x \in {"export", "preview"}, b \in BOOLEAN }

\* the files after a call that wrote `files`; both paths are fixed and overwritten
write_files(d, files) ==
    [ video   |-> IF files.video = "untouched" THEN d.video ELSE files.video,
      preview |-> IF files.preview = "untouched" THEN d.preview ELSE files.preview ]

call_image_predict(image_input, env) ==
    /\ pc = "idle"
    /\ client = "image"
    /\ LET out == image_predict(loaded["image"], top_k, image_input, env)
       IN  /\ last' = CallRecord("predict", "image", image_input, env, loaded["image"],
                                 top_k, 0, 0, out)
           /\ disk' = write_files(disk, out.files)
    /\ UNCHANGED <<loaded, model, top_k, num_frames, fps, pc, self, fs_out, client, num_inference_steps, appvars>>

call_video_predict(text_prompt, env) ==
    /\ pc = "idle"
    /\ client = "text_to_video"
    /\ LET out == video_predict(loaded["text_to_video"], num_frames, fps, text_prompt, env)
       IN  /\ last' = CallRecord("predict", "text_to_video", text_prompt, env,
                                 loaded["text_to_video"], 0, num_frames, fps, out)
           /\ disk' = write_files(disk, out.files)
    /\ UNCHANGED <<loaded, model, top_k, num_frames, fps, pc, self, fs_out, client, num_inference_steps, appvars>>

\* the caller asks adapter a for its info
call_get_model_info(a) ==
    /\ pc = "idle"
    /\ a = client
    /\ last' = CallRecord("get_model_info", a, NoInput, NullEnv, loaded[a], top_k,
                          num_frames, fps, Return(<<get_model_info(a)>>, 0, Untouched))
    /\ UNCHANGED <<loaded, model, top_k, num_frames, fps, num_inference_steps, pc, self,
                   disk, fs_out, client, appvars>>

Next ==
    \/ \E a \in Adapters : call_get_model_info(a)
    \/ \E a \in Adapters : call_load_model(a)
    \/ \E ok \in BOOLEAN : load_pipeline(ok)
    \/ \E ok \in BOOLEAN : load_to_device(ok)
    \/ load_return_true
    \/ load_return_false
    \/ \E x \in ImageInputs : \E env \in ImageEnvs(loaded["image"], x) :
           call_image_predict(x, env)
    \/ \E x \in TextInputs : \E env \in VideoEnvs(loaded["text_to_video"], x) :
           call_video_predict(x, env)
    \/ \E k \in TopKArgs : set_top_k(k)
    \/ \E n \in FrameArgs : set_num_frames(n)
    \/ \E f \in FpsArgs : set_fps(f)

Spec == Init /\ [][Next]_vars

\* the configuration of the text-to-video adapter: its three setters, and
\* get_model_info, which divides the frame count by the rate
NextConfig ==
    \/ \E n \in FrameArgs : set_num_frames(n)
    \/ \E f \in FpsArgs : set_fps(f)
    \/ \E steps \in StepArgs : set_inference_steps(steps)
    \/ \E a \in Adapters : call_get_model_info(a)

SpecConfig == Init /\ [][NextConfig]_vars

(***************************************************************************)
(* Properties of the adapters, checked under Spec.                         *)
(***************************************************************************)

\* C1: whenever predict is called on an adapter whose loaded flag is false,
\* it raises the "Model not loaded" error, the pipeline is not invoked and
\* the files on disk are what they were.
C1_NotLoadedPredictFails ==
    [][ (last'.op = "predict" /\ ~loaded[last'.adapter]) =>
            /\ last'.out.kind = "raise"
            /\ last'.out.exc = "Exception"
            /\ last'.out.msg = MsgNotLoaded
            /\ last'.out.pipeline_calls = 0
            /\ last'.out.files = Untouched
            /\ disk' = disk ]_vars

\* a load succeeded, files were produced, a later load failed, predict was refused
C1_Witness ==
    /\ last.op = "predict"
    /\ last.adapter = "text_to_video"
    /\ ~last.was_loaded
    /\ last.out.msg = MsgNotLoaded
    /\ model["text_to_video"] = "ready"
    /\ disk.video = "complete"

\* C2: load_model never raises; the boolean it returns is the loaded flag.
C2_LoadReturnsFlag ==
    (last.op = "load_model" /\ last.out.kind # "running") =>
        /\ last.out.kind = "return"
        /\ last.out.value = <<loaded[last.adapter]>>

\* a reload that failed after the pipeline object had been created
C2_Witness ==
    /\ last.op = "load_model"
    /\ last.adapter = "text_to_video"
    /\ last.was_loaded
    /\ last.out.value = <<FALSE>>
    /\ model["text_to_video"] = "created"

\* C3 as stated: in every state, the loaded flag being true implies that the
\* handle is the product of an initialisation that ran to completion.
C3_LoadedImpliesReady ==
    \A a \in Adapters : loaded[a] => model[a] = "ready"

\* C8: a successful classification returns min(k, m) records, ranked
\* 1..min(k, m), carrying the first min(k, m) labels of the raw output in order.
C8_TopKRanks ==
    (last.op = "predict" /\ last.adapter = "image" /\ last.out.kind = "return") =>
        LET raw == last.env.results
            got == last.out.value
        IN  /\ Len(got) = Min(last.k, Len(raw))
            /\ \A j \in 1..Len(got) :
                   /\ got[j].rank = j
                   /\ got[j].label = raw[j].label

C8_Witness ==
    /\ last.op = "predict"
    /\ last.adapter = "image"
    /\ last.out.kind = "return"
    /\ last.k = 2
    /\ Len(last.env.results) = 3
    /\ Len(last.out.value) = 2
    /\ last.out.value[2].label = "fox"

\* the input a variant rejects: not a string or blank after trimming (text);
\* neither a path string nor an in-memory image (image)
InvalidInput(c) ==
    IF c.adapter = "image"
    THEN c.input.type \notin {"str", "Image"}
    ELSE c.input.type # "str" \/ strip(c.input.chars) = <<>>

\* C9 as stated: predict on a loaded adapter with invalid input raises the
\* ValueError "Input must be ...", without a pipeline call or a file written.
C9_InvalidInputRejected ==
    (last.op = "predict" /\ last.was_loaded /\ InvalidInput(last)) =>
        /\ last.out.kind = "raise"
        /\ last.out.exc = "ValueError"
        /\ last.out.msg \in {MsgImageInput, MsgTextInput}
        /\ last.out.pipeline_calls = 0
        /\ last.out.files = Untouched

\* the stage of a predict call that failed, "none" when every stage succeeded
StageFailure(c) ==
    IF c.env.fail \in {"open", "pipeline"} THEN c.env.fail
    ELSE IF c.adapter = "text_to_video" /\ c.n = 1 THEN "ZeroDivisionError"
    ELSE c.env.fail

CompleteResult(c) ==
    IF c.adapter = "image"
    THEN Len(c.out.value) = Min(c.k, Len(c.env.results))
    ELSE /\ Len(c.out.value) = 1
         /\ c.out.value[1].status = "success"
         /\ c.out.value[1].frames = c.n
         /\ c.out.files = [ video |-> "complete", preview |-> "complete" ]

\* C10: predict on a loaded adapter with valid input either returns a
\* complete result, every stage having succeeded, or raises an error that
\* wraps the cause of the stage that failed.
C10_AllOrNothing ==
    (last.op = "predict" /\ last.was_loaded /\ ~InvalidInput(last)) =>
        \/ /\ last.out.kind = "return"
           /\ StageFailure(last) = "none"
           /\ CompleteResult(last)
        \/ /\ last.out.kind = "raise"
           /\ last.out.exc = "Exception"
           /\ last.out.msg \in {MsgPrediction, MsgVideo}
           /\ last.out.cause # "none"
           /\ last.out.cause = StageFailure(last)

\* the video was encoded, saving the preview failed, the call raised
C10_Witness ==
    /\ last.op = "predict"
    /\ last.adapter = "text_to_video"
    /\ last.was_loaded
    /\ last.out.kind = "raise"
    /\ last.out.cause = "preview"
    /\ last.out.files.video = "complete"

\* C11 as stated: when predict fails during or after the video export, no
\* video file written by that call is left at the output path.
C11_NoVideoLeftOnFailure ==
    (/\ last.op = "predict"
     /\ last.adapter = "text_to_video"
     /\ last.out.kind = "raise"
     /\ last.out.cause \in {"export", "preview"}) =>
        last.out.files.video = "untouched"

\* C12: the record of a successful predict reports the frame total and the
\* rate that were configured when the call was made.
C12_FramesAndFps ==
    (last.op = "predict" /\ last.adapter = "text_to_video" /\ last.out.kind = "return") =>
        /\ last.out.value[1].frames = last.n
        /\ last.out.value[1].fps = last.f
        /\ last.n > 0
        /\ last.f > 0

C12_Witness ==
    /\ last.op = "predict"
    /\ last.adapter = "text_to_video"
    /\ last.out.kind = "return"
    /\ last.n = 3
    /\ last.f = 2
    /\ last.out.value[1].frames = 3

\* C13 as stated: the reported duration equals frames / fps exactly.
C13_DurationExact ==
    (last.op = "predict" /\ last.adapter = "text_to_video" /\ last.out.kind = "return") =>
        last.out.value[1].duration * last.out.value[1].fps = 10 * last.out.value[1].frames

\* C13 amended: the reported duration is frames / fps rounded to one decimal:
\* it differs from the quotient by at most 0.05 and equals it whenever the
\* quotient has a single decimal.
C13_DurationRounded ==
    (last.op = "predict" /\ last.adapter = "text_to_video" /\ last.out.kind = "return") =>
        LET d   == last.out.value[1].duration
            fr  == last.out.value[1].frames
            r   == last.out.value[1].fps
            err == d * r - 10 * fr
        IN  /\ 2 * err <= r
            /\ 2 * err >= -r
            /\ ((10 * fr) % r = 0 => err = 0)

\* 3 frames at 8 fps: 0.375 s is reported as "0.4 seconds"
C13_Witness ==
    /\ last.op = "predict"
    /\ last.adapter = "text_to_video"
    /\ last.out.kind = "return"
    /\ last.out.value[1].frames = 3
    /\ last.out.value[1].fps = DefaultFps
    /\ last.out.value[1].duration = 4

\* C14: top_k starts at 3 and stays positive: set_top_k(k) returns without an
\* error, stores k when k > 0 and leaves top_k alone when k <= 0.
C14_TopKPositive ==
    /\ top_k = DefaultTopK
    /\ [][ /\ top_k' > 0
           /\ (last'.op = "set_top_k" =>
                   /\ last'.out.kind = "return"
                   /\ top_k' = IF last'.k > 0 THEN last'.k ELSE top_k) ]_vars

\* top_k was set to 2 and a later set_top_k(0) left it there
C14_Witness ==
    /\ last.op = "set_top_k"
    /\ last.k = 0
    /\ top_k = 2

\* C23: in every state get_model_info() of both adapters has the four base
\* keys, and 'Status' is 'Loaded' exactly when the loaded flag is true.
C23_BaseKeysAndStatus ==
    /\ \A a \in Adapters :
           /\ BaseKeys \subseteq DOMAIN get_model_info(a)
           /\ get_model_info(a)["Status"] = (IF loaded[a] THEN "Loaded" ELSE "Not Loaded")
           /\ get_model_info(a)["Status"] = "Loaded" <=> loaded[a]
    /\ last.op = "get_model_info" =>
           /\ last.out.kind = "return"
           /\ BaseKeys \subseteq DOMAIN last.out.value[1]
           /\ last.out.value[1]["Status"] = "Loaded" <=> last.was_loaded
           /\ last.out.value[1]["Status"] = "Not Loaded" <=> ~last.was_loaded

\* the video adapter was asked after a successful load
C23_Witness ==
    /\ last.op = "get_model_info"
    /\ last.adapter = "text_to_video"
    /\ loaded["text_to_video"]
    /\ last.out.value[1]["Status"] = "Loaded"

(***************************************************************************)
(* Properties of the frame synthesizer, checked under SpecFrames.          *)
(***************************************************************************)

\* exact comparisons of rationals <<numerator, denominator>>, denominators > 0
RatLeq(a, b) == IF a[2] = b[2] THEN a[1] <= b[1] ELSE a[1] * b[2] <= b[1] * a[2]
RatLess(a, b) == IF a[2] = b[2] THEN a[1] < b[1] ELSE a[1] * b[2] < b[1] * a[2]
RatIs(a, n, d) == a[1] * d = n * a[2]

\* C4: for every frame count N >= 2 and every image size, the synthesizer
\* returns exactly N frames and every frame has the size of the source image.
C4_FrameCountAndSize ==
    (fs_out.called /\ fs_out.n >= 2) =>
        /\ fs_out.raised = "none"
        /\ Len(fs_out.frames) = fs_out.n
        /\ \A j \in 1..Len(fs_out.frames) : fs_out.frames[j].size = fs_out.size

C4_Witness ==
    /\ fs_out.called
    /\ fs_out.n = 4
    /\ fs_out.size = <<100, 1>>
    /\ Len(fs_out.frames) = 4
    /\ fs_out.frames[4].resized # fs_out.size

\* the unzoomed frame: ease 0, scale 1.0, resize target = source size, offset (0, 0)
Unzoomed(f, size) ==
    /\ RatIs(f.ease, 0, 1)
    /\ RatIs(f.scale, 1, 1)
    /\ f.resized = size
    /\ f.pan = <<0, 0>>

\* C5 as stated: for every N >= 2 both frame 0 and frame N-1 are unzoomed.
C5_Original ==
    (fs_out.called /\ fs_out.n >= 2 /\ fs_out.raised = "none") =>
        /\ Unzoomed(fs_out.frames[1], fs_out.size)
        /\ Unzoomed(fs_out.frames[fs_out.n], fs_out.size)

\* C5 amended: for every N >= 2 frame 0 is unzoomed (ease 0, scale 1.0, resize
\* target = source size, crop offset (0, 0)); frame N-1 has ease 1 and scale
\* 1.2, its resize target is (int(1.2 width), int(1.2 height)) and its crop
\* offset is half the growth on each axis, truncated.
C5_EndFrames ==
    (fs_out.called /\ fs_out.n >= 2 /\ fs_out.raised = "none") =>
        LET w     == fs_out.size[1]
            h     == fs_out.size[2]
            final == fs_out.frames[fs_out.n]
        IN  /\ Unzoomed(fs_out.frames[1], fs_out.size)
            /\ RatIs(final.ease, 1, 1)
            /\ RatIs(final.scale, 6, 5)
            /\ final.resized = <<(6 * w) \div 5, (6 * h) \div 5>>
            /\ final.pan = <<((6 * w) \div 5 - w) \div 2, ((6 * h) \div 5 - h) \div 2>>

C5_Witness ==
    /\ fs_out.called
    /\ fs_out.n = 4
    /\ fs_out.size = <<100, 100>>
    /\ Len(fs_out.frames) = 4
    /\ fs_out.frames[1].box = <<0, 0, 100, 100>>
    /\ fs_out.frames[4].resized = <<120, 120>>
    /\ fs_out.frames[4].box = <<10, 10, 110, 110>>

\* C6 as stated: with a frame count of 1 the synthesizer raises nothing and
\* returns exactly one frame computed with progress 0 (scale 1.0).
C6_SingleFrame ==
    (fs_out.called /\ fs_out.n = 1) =>
        /\ fs_out.raised = "none"
        /\ Len(fs_out.frames) = 1
        /\ Unzoomed(fs_out.frames[1], fs_out.size)

\* C7: for every N >= 2 the scale, and with it both integer resize
\* dimensions, never decrease from one frame index to a later one.
C7_ScaleMonotone ==
    (fs_out.called /\ fs_out.n >= 2 /\ fs_out.raised = "none") =>
        \A i \in 1..Len(fs_out.frames), j \in 1..Len(fs_out.frames) :
            i < j =>
                /\ RatLeq(fs_out.frames[i].scale, fs_out.frames[j].scale)
                /\ fs_out.frames[i].resized[1] <= fs_out.frames[j].resized[1]
                /\ fs_out.frames[i].resized[2] <= fs_out.frames[j].resized[2]

C7_Witness ==
    /\ fs_out.called
    /\ fs_out.n = MaxFrames
    /\ Len(fs_out.frames) = MaxFrames
    /\ \A j \in 1..(MaxFrames - 1) :
           RatLess(fs_out.frames[j].scale, fs_out.frames[j + 1].scale)
    /\ fs_out.frames[1].resized[1] < fs_out.frames[MaxFrames].resized[1]

\* C30: frame count, fps and inference steps start at 24, 8 and 20 and stay
\* positive: each setter stores a positive argument, leaves the value alone
\* for any other and returns without an error; get_model_info then reports
\* the duration frames / fps.
C30_ConfigPositive ==
    /\ num_frames = DefaultNumFrames /\ fps = DefaultFps /\ num_inference_steps = DefaultSteps
    /\ [][ /\ num_frames' > 0 /\ fps' > 0 /\ num_inference_steps' > 0
           /\ (last'.op = "set_num_frames" =>
                   /\ last'.out.kind = "return"
                   /\ num_frames' = IF last'.n > 0 THEN last'.n ELSE num_frames)
           /\ (last'.op = "set_fps" =>
                   /\ last'.out.kind = "return"
                   /\ fps' = IF last'.f > 0 THEN last'.f ELSE fps)
           /\ (last'.op = "set_inference_steps" =>
                   /\ last'.out.kind = "return"
                   /\ num_inference_steps' = IF last'.k > 0 THEN last'.k
                                             ELSE num_inference_steps)
           /\ (last'.op = "get_model_info" /\ last'.adapter = "text_to_video" =>
                   /\ last'.out.kind = "return"
                   /\ last'.out.value[1]["Duration"] = duration_tenths(num_frames, fps)) ]_vars

\* set_fps(0) after set_fps(2), set_num_frames(0) and set_inference_steps(0)
\* have left 2 fps, 3 frames and 1 step in place
C30_Witness ==
    /\ last.op = "set_fps"
    /\ last.f = 0
    /\ fps = 2
    /\ num_frames = 3
    /\ num_inference_steps = 1

\* the brightness multiplier equals 1.05, equals 1.0, is at most another one
IsPeak(b) == b.base = 1 /\ b.amplitude = <<1, BrightDen>> /\ 2 * b.sine[1] = b.sine[2]
IsBaseline(b) == b.base = 1 /\ b.sine[1] = 0
BrightLeq(a, b) == RatLeq(a.sine, b.sine)

\* C24 as stated: among the frames of one synthesis with N >= 2 the first and
\* the last have the multiplier 1.0, and there is a midpoint frame whose
\* multiplier is 1.05 and that no frame exceeds.
C24_PeakAtMidpoint ==
    (fs_out.called /\ fs_out.raised = "none" /\ fs_out.n >= 2) =>
        LET fr == fs_out.frames
        IN  /\ IsBaseline(fr[1].brightness)
            /\ IsBaseline(fr[Len(fr)].brightness)
            /\ \E m \in DOMAIN fr :
                   /\ IsPeak(fr[m].brightness)
                   /\ \A j \in DOMAIN fr : BrightLeq(fr[j].brightness, fr[m].brightness)

\* C24 amended: the first and the last frame have the multiplier 1.0; the
\* largest multiplier is that of the frame of index (N-1) div 2 and, equally,
\* of index N div 2; it is 1.05 exactly when N is odd and below 1.05 when N is
\* even.
C24_PeakNearMidpoint ==
    (fs_out.called /\ fs_out.raised = "none" /\ fs_out.n >= 2) =>
        LET fr == fs_out.frames
            lo == ((fs_out.n - 1) \div 2) + 1
            hi == (fs_out.n \div 2) + 1
        IN  /\ IsBaseline(fr[1].brightness)
            /\ IsBaseline(fr[Len(fr)].brightness)
            /\ \A j \in DOMAIN fr : BrightLeq(fr[j].brightness, fr[lo].brightness)
            /\ fr[hi].brightness = fr[lo].brightness
            /\ IsPeak(fr[lo].brightness) <=> (fs_out.n % 2 = 1)
            /\ \A j \in DOMAIN fr : IsPeak(fr[j].brightness) => j = lo

\* four frames: the two middle ones share the largest multiplier, below 1.05
C24_Witness ==
    /\ fs_out.called
    /\ fs_out.raised = "none"
    /\ fs_out.n = 4
    /\ fs_out.frames[2].brightness.sine = <<1, 3>>
    /\ fs_out.frames[3].brightness.sine = <<1, 3>>

\* C29: for N >= 2 the crop box of every frame lies inside the resized image.
C29_CropInsideResized ==
    (fs_out.called /\ fs_out.raised = "none") =>
        \A j \in DOMAIN fs_out.frames :
            LET f == fs_out.frames[j]
            IN  /\ f.pan[1] >= 0
                /\ f.pan[2] >= 0
                /\ f.pan[1] + fs_out.size[1] <= f.resized[1]
                /\ f.pan[2] + fs_out.size[2] <= f.resized[2]
                /\ f.box = <<f.pan[1], f.pan[2], f.pan[1] + fs_out.size[1],
                             f.pan[2] + fs_out.size[2]>>
                /\ f.box[3] <= f.resized[1]
                /\ f.box[4] <= f.resized[2]

\* a 100x100 image, 4 frames: the last is cut at (10, 10) out of 120x120
C29_Witness ==
    /\ fs_out.called
    /\ fs_out.raised = "none"
    /\ fs_out.size = <<100, 100>>
    /\ fs_out.n = 4
    /\ fs_out.frames[4].resized = <<120, 120>>
    /\ fs_out.frames[4].box = <<10, 10, 110, 110>>

(***************************************************************************)
(* The application (src/main.py).  The handlers of the presentation        *)
(* surface run in the main thread; every load or run request starts a      *)
(* worker thread; the workers hand callbacks to the main thread with       *)
(* after(), and the main loop executes them.  A worker step is a stretch   *)
(* of run_thread / load_thread between two calls that block.  In one       *)
(* behaviour the load and run requests address the adapter `client`.       *)
(***************************************************************************)
ComboValues == {"Text-to-Video", "Image Classification"}
MenuModelTypes == {"text_to_image", "image"}
ImagePaths == {"a.png"}
\* "Select an image using Browse"
BrowseHint == <<"a", " ", "a">>
\* what the user types into the prompt box: a blank text, or a prompt
TypedTexts == { <<" ">>, DefaultPrompt }

\* the variables of the sequential callers, which the application leaves alone
callervars == <<top_k, num_frames, fps, num_inference_steps, pc, self, last, fs_out, client>>

\* the output log and the warning dialog
uivars == <<output_display, showwarning>>

\* the log lines inserted as they are; every other one is inserted after "\n"
PlainLines == {"Generating video from", "Video Generation Complete!", "Classification:"}

\* output_display.insert(tk.END, line): the first line of the log afterwards
insert_end(first_line, line) ==
    IF first_line # <<>> THEN first_line
    ELSE IF line \in PlainLines THEN <<line>>
    ELSE <<"">>

\* lambda: self._update_progress(pct, msg), to be scheduled after ms milliseconds
Progress(ms, pct, msg) == [ ms |-> ms, type |-> "progress", pct |-> pct, msg |-> msg ]
\* any other callback scheduled with after(0, ...): a line of the output log,
\* the model info refresh, the image display, the error dialog
Callback(type, msg) == [ ms |-> 0, type |-> type, pct |-> -1, msg |-> msg ]

\* self.after(ms, callback) for each callback of evs, in order, on behalf of
\* operation i that has scheduled `first` callbacks before: the timer list in
\* order of the calls
after(q, i, first, evs) ==
    q \o [ j \in 1..Len(evs) |-> [ op |-> i, idx |-> first + j, ms |-> evs[j].ms ] ]

\* the timer q[j] may be the next to expire: every timer created before it
\* expires strictly later (timers of one expiry time run in order of creation)
due(q, j) == \A k \in 1..(j - 1) : q[k].ms > q[j].ms

\* the branch of load_thread, and of _update_model_info: only the name
\* "Text-to-Video" stands for the video adapter
load_target(model_name) ==
    IF model_name = "Text-to-Video" THEN "text_to_video" ELSE "image"

\* the callbacks of _load_selected_model, in the order of the after() calls
load_start_events == << Progress(0, 0, "Starting...") >>

load_begin_events(target) ==
    << Progress(0, 20, IF target = "text_to_video" THEN "Downloading model..."
                       ELSE "Loading model...") >>

load_end_events(target, success) ==
    << Progress(0, 100, "Model loaded!"),
       Callback("log", IF success THEN "loaded successfully!" ELSE "Failed to load"),
       Callback("info", target),
       Progress(2000, 0, "Ready") >>

\* the callbacks of _run_model, in the order of the after() calls
run_start_events == << Progress(0, 0, "Initializing...") >>

\* a mutant of video_begin_events: the first callback is scheduled after 2000 ms
video_begin_events_late(text_prompt) ==
    << Progress(2000, 10, "Preparing prompt..."),
       Callback("log", "Generating video from"),
       Progress(0, 20, "Starting video generation..."),
       Progress(0, 50, "Generating image from text...") >>

video_begin_events(text_prompt) ==
    << Progress(0, 10, "Preparing prompt..."),
       Callback("log", "Generating video from"),
       Progress(0, 20, "Starting video generation..."),
       Progress(0, 50, "Generating image from text...") >>

\* a mutant of video_end_events: "Exporting video..." is reported after the end
video_end_events_backwards(preview_exists) ==
    (IF preview_exists THEN << Callback("display", "preview") >> ELSE << >>)
    \o << Callback("log", "Video Generation Complete!"),
          Progress(0, 100, "Video generation complete!"),
          Progress(0, 95, "Exporting video..."),
          Progress(3000, 0, "Ready") >>

video_end_events(preview_exists) ==
    << Progress(0, 95, "Exporting video...") >>
    \o (IF preview_exists THEN << Callback("display", "preview") >> ELSE << >>)
    \o << Callback("log", "Video Generation Complete!"),
          Progress(0, 100, "Video generation complete!"),
          Progress(3000, 0, "Ready") >>

image_begin_events == << Progress(0, 20, "Loading image...") >>

image_open_events ==
    << Callback("display", "input"), Progress(0, 50, "Classifying image...") >>

image_end_events ==
    << Callback("log", "Classification:"),
       Progress(0, 100, "Classification complete!"),
       Progress(3000, 0, "Ready") >>

\* the except handler of run_thread
except_events(error_msg) ==
    << Callback("showerror", error_msg),
       Callback("log", error_msg),
       Callback("log", "Full error:"),
       Progress(0, 0, "Error occurred") >>

\* threading.Thread(target=..., daemon=True): the record of one operation and
\* of its worker.  events: the callbacks scheduled for it so far; todo: the
\* callbacks of the after() calls the worker has still to make before its
\* next statement of another kind, one call at a time; applied: the
\* indices of those the main loop has executed, in order of execution;
\* widgets: the widgets the worker thread has accessed itself; calls: the
\* adapter methods called for the operation, each with the thread that
\* executed the call; paths: the values of self._selected_image_path the
\* worker thread has read, in order
Thread(kind, target, events) ==
    [ kind |-> kind, target |-> target, pc |-> "start",
      text_prompt |-> <<>>, success |-> FALSE, failed |-> FALSE,
      events |-> events, todo |-> <<>>, applied |-> <<>>, widgets |-> {},
      calls |-> <<>>, paths |-> <<>> ]

\* a method of the adapter of an operation is called in thread
called(op, method, thread) ==
    [ op EXCEPT !.calls = Append(@, [ method |-> method, thread |-> thread ]) ]

\* a mutant of worker_call: the call is made by the main thread
worker_call_in_main(op, method) == called(op, method, "main")

\* load_thread and run_thread call the adapter themselves
worker_call(op, method) == called(op, method, "worker")

\* the worker of an operation reads self._selected_image_path
read_path(op, path) == [ op EXCEPT !.paths = Append(@, path) ]

\* the worker of an operation goes on to the after() calls of evs, and will
\* then be at pc; "exit" stands for the end of the thread function
scheduled(op, evs, to) ==
    [ op EXCEPT !.todo = evs, !.pc = IF to = "done" THEN "exit" ELSE to ]

\* the worker of operation i raises: the except handler of run_thread runs
raised(op, error_msg) ==
    [ scheduled(op, except_events(error_msg), "done") EXCEPT !.failed = TRUE ]

\* the combobox of the header
select_model(name) ==
    /\ showwarning = NoWarning
    /\ load_target(name) = client
    /\ selected_model' = name
    /\ UNCHANGED <<loaded, model, disk, callervars, models_loaded, selected_image_path,
                   text_input, progress_bar, ops, timers, output_display, showwarning>>

\* the user types into the prompt box
edit_prompt(t) ==
    /\ showwarning = NoWarning
    /\ client = "text_to_video"
    /\ text_input.state = "normal"
    /\ text_input' = [ text_input EXCEPT !.chars = t ]
    /\ UNCHANGED <<loaded, model, disk, callervars, uivars, models_loaded, selected_model,
                   selected_image_path, progress_bar, ops, timers>>

\* _browse_image; file_path = "" when the dialog is cancelled
browse_image(file_path) ==
    /\ showwarning = NoWarning
    /\ IF file_path # ""
       THEN /\ selected_image_path' = file_path
            /\ text_input' = [ chars |-> BrowseHint, state |-> "disabled" ]
       ELSE UNCHANGED <<selected_image_path, text_input>>
    /\ UNCHANGED <<loaded, model, disk, callervars, uivars, models_loaded, selected_model,
                   progress_bar, ops, timers>>

\* the body of _load_selected_model for the name it read from _selected_model
start_load_thread(model_name) ==
    /\ showwarning = NoWarning
    /\ load_target(model_name) = client
    /\ Len(ops) < MaxOps
    /\ ops' = Append(ops, Thread("load", load_target(model_name), load_start_events))
    /\ timers' = after(timers, Len(ops) + 1, 0, load_start_events)
    /\ output_display' = <<"Loading">>

\* the "Load Model" button
load_selected_model ==
    /\ start_load_thread(selected_model)
    /\ UNCHANGED <<loaded, model, disk, callervars, models_loaded, selected_model,
                   selected_image_path, text_input, progress_bar, showwarning>>

\* the two entries of the Models menu
load_specific_model(model_type) ==
    /\ selected_model' = IF model_type = "text_to_image" THEN "Text-to-Image"
                         ELSE "Image Classification"
    /\ start_load_thread(selected_model')
    /\ UNCHANGED <<loaded, model, disk, callervars, models_loaded,
                   selected_image_path, text_input, progress_bar, showwarning>>

\* self.after(ms, callback) called by the worker of operation i: the call is
\* handed to the main thread, one call at a time; the worker has finished
\* when the last call of its thread function is made
thread_after(i) ==
    /\ ops[i].todo # <<>>
    /\ ops' = [ ops EXCEPT ![i].events = Append(@, Head(ops[i].todo)),
                           ![i].todo = Tail(@),
                           ![i].pc = IF @ = "exit" /\ Len(ops[i].todo) = 1
                                     THEN "done" ELSE @ ]
    /\ timers' = after(timers, i, Len(ops[i].events), << Head(ops[i].todo) >>)
    /\ UNCHANGED <<loaded, model, disk, callervars, uivars, models_loaded, selected_model,
                   selected_image_path, text_input, progress_bar>>

\* load_thread up to the call of load_model_async
load_thread_begin(i) ==
    /\ ops[i].kind = "load"
    /\ ops[i].pc = "start"
    /\ ops' = [ ops EXCEPT ![i] = [ @ EXCEPT !.events = @ \o load_begin_events(ops[i].target),
                                             !.pc = "load_model" ] ]
    /\ timers' = after(timers, i, Len(ops[i].events), load_begin_events(ops[i].target))
    /\ UNCHANGED <<loaded, model, disk, callervars, uivars, models_loaded, selected_model,
                   selected_image_path, text_input, progress_bar>>

\* load_model_async calls load_model() of the adapter, which blocks in
\* self._model = pipeline(...) / DiffusionPipeline.from_pretrained(...);
\* ok: whether the third-party constructor returned; when it raises nothing
\* is assigned
load_model_async_call(i, ok) ==
    /\ ops[i].kind = "load"
    /\ ops[i].pc = "load_model"
    /\ model' = IF ok
                THEN [ model EXCEPT ![ops[i].target] =
                           IF ops[i].target = "image" THEN "ready" ELSE "created" ]
                ELSE model
    /\ ops' = [ ops EXCEPT ![i] = [ worker_call(@, "load_model") EXCEPT !.pc =
                    IF ~ok THEN "load_except"
                    ELSE IF ops[i].target = "image" THEN "load_done"
                    ELSE "load_to_device" ] ]
    /\ UNCHANGED <<loaded, disk, callervars, uivars, models_loaded, selected_model,
                   selected_image_path, text_input, progress_bar, timers>>

\* self._model = self._model.to(device) in the worker, text-to-video only
load_model_async_to_device(i, ok) ==
    /\ ops[i].kind = "load"
    /\ ops[i].pc = "load_to_device"
    /\ model' = IF ok THEN [ model EXCEPT ![ops[i].target] = "ready" ] ELSE model
    /\ ops' = [ ops EXCEPT ![i].pc = IF ok THEN "load_done" ELSE "load_except" ]
    /\ UNCHANGED <<loaded, disk, callervars, uivars, models_loaded, selected_model,
                   selected_image_path, text_input, progress_bar, timers>>

\* self._loaded = True; return True, or the except handler of load_model():
\* self._loaded = False; return False
load_model_async_return(i) ==
    /\ ops[i].kind = "load"
    /\ ops[i].pc \in {"load_done", "load_except"}
    /\ loaded' = [ loaded EXCEPT ![ops[i].target] = (ops[i].pc = "load_done") ]
    /\ ops' = [ ops EXCEPT ![i].success = (ops[i].pc = "load_done"), ![i].pc = "store" ]
    /\ UNCHANGED <<model, disk, callervars, uivars, models_loaded, selected_model,
                   selected_image_path, text_input, progress_bar, timers>>

\* self.models_loaded[model_type] = success, the last statement of
\* load_model_async before its return; load_thread goes on to its after() calls
load_model_async_store(i) ==
    /\ ops[i].kind = "load"
    /\ ops[i].pc = "store"
    /\ models_loaded' = [ models_loaded EXCEPT ![ops[i].target] = ops[i].success ]
    /\ ops' = [ ops EXCEPT ![i] =
                    [ scheduled(@, load_end_events(ops[i].target, ops[i].success), "done")
                      EXCEPT !.failed = ~ops[i].success ] ]
    /\ UNCHANGED <<loaded, model, disk, callervars, uivars, selected_model,
                   selected_image_path, text_input, progress_bar, timers>>

\* the rest of load_thread: one of its after() calls
load_thread_end(i) ==
    /\ ops[i].kind = "load"
    /\ thread_after(i)

\* a mutant of run_model: the models_loaded gate is missing
run_model_ungated(model_num) ==
    LET model_type == IF model_num = 1 THEN "text_to_video" ELSE "image"
    IN  /\ showwarning = NoWarning
        /\ model_type = client
        /\ Len(ops) < MaxOps
        /\ ops' = Append(ops, Thread("run", model_type, run_start_events))
        /\ timers' = after(timers, Len(ops) + 1, 0, run_start_events)
        /\ output_display' = <<"Running Model">>
        /\ UNCHANGED <<loaded, model, disk, callervars, models_loaded, selected_model,
                       selected_image_path, text_input, progress_bar, showwarning>>

\* _run_model in the main thread when the gate is shut: the warning dialog,
\* which stays on screen until the user closes it
run_model_rejected(model_num) ==
    LET model_type == IF model_num = 1 THEN "text_to_video" ELSE "image"
    IN  /\ showwarning = NoWarning
        /\ model_type = client
        /\ ~models_loaded[model_type]
        /\ showwarning' = "Please load the model first!"
        /\ UNCHANGED <<loaded, model, disk, callervars, models_loaded, selected_model,
                       selected_image_path, text_input, progress_bar, ops, timers,
                       output_display>>

\* _run_model in the main thread when the gate is open: the start of run_thread
run_model_accepted(model_num) ==
    LET model_type == IF model_num = 1 THEN "text_to_video" ELSE "image"
    IN  /\ showwarning = NoWarning
        /\ model_type = client
        /\ models_loaded[model_type]
        /\ Len(ops) < MaxOps
        /\ ops' = Append(ops, Thread("run", model_type, run_start_events))
        /\ timers' = after(timers, Len(ops) + 1, 0, run_start_events)
        /\ output_display' = <<"Running Model">>
        /\ UNCHANGED <<loaded, model, disk, callervars, models_loaded, selected_model,
                       selected_image_path, text_input, progress_bar, showwarning>>

\* _run_model
run_model(model_num) ==
    \/ run_model_rejected(model_num)
    \/ run_model_accepted(model_num)

\* run_thread up to its first after() call: the worker reads the prompt box
\* itself (text-to-video) or checks the selected path (image)
run_thread_begin(i) ==
    /\ ops[i].kind = "run"
    /\ ops[i].pc = "start"
    /\ LET text_prompt == strip(text_input.chars)
       IN  ops' = [ ops EXCEPT ![i] =
               IF ops[i].target = "text_to_video"
               THEN [ (IF text_prompt = <<>>
                       THEN raised(ops[i], "Please enter a text prompt for video generation")
                       ELSE scheduled(ops[i], video_begin_events(text_prompt), "predict"))
                      EXCEPT !.text_prompt = text_prompt,
                             !.widgets = @ \cup {"text_input"} ]
               ELSE IF selected_image_path = NoPath
               THEN raised(read_path(ops[i], selected_image_path),
                           "Please select an image")
               ELSE scheduled(read_path(ops[i], selected_image_path),
                              image_begin_events, "open") ]
    /\ UNCHANGED <<loaded, model, disk, callervars, uivars, models_loaded, selected_model,
                   selected_image_path, text_input, progress_bar, timers>>

\* Image.open(self._selected_image_path); ok: whether the file opens
run_thread_open(i, ok) ==
    /\ ops[i].kind = "run"
    /\ ops[i].pc = "open"
    /\ ops[i].todo = <<>>
    /\ LET op == read_path(ops[i], selected_image_path)
       IN  ops' = [ ops EXCEPT ![i] =
               IF ok /\ selected_image_path # NoPath
               THEN scheduled(op, image_open_events, "predict")
               ELSE raised(op, "cannot open the image") ]
    /\ UNCHANGED <<loaded, model, disk, callervars, uivars, models_loaded, selected_model,
                   selected_image_path, text_input, progress_bar, timers>>

\* the pipeline of an adapter raises; with it predict() is followed up to
\* its pipeline call: it raises before the call or it reaches the call
PipelineFails == [ NullEnv EXCEPT !.fail = "pipeline" ]

\* the argument of predict() in a run: the prompt the worker has read, or
\* the path it reads at the call
predict_input(op) ==
    IF op.target = "text_to_video" THEN [ type |-> "str", chars |-> op.text_prompt ]
    ELSE IF op.paths[Len(op.paths)] = NoPath THEN [ type |-> "NoneType", chars |-> <<>> ]
    ELSE [ type |-> "str", chars |-> <<"a">> ]

\* what the pipeline of adapter a does in a run of the application
AppEnvs(a) ==
    { PipelineFails,
      IF a = "image"
      THEN [ NullEnv EXCEPT !.results = << [ label |-> "cat", score |-> 8734 ] >> ]
      ELSE NullEnv }

\* what imageio.mimsave and frames[0].save do in a run of the application
ExportEnvs == { NullEnv } \cup { [ NullEnv EXCEPT !.fail = "export", !.partial = b ] : b \in BOOLEAN }
PreviewEnvs == { NullEnv } \cup { [ NullEnv EXCEPT !.fail = "preview", !.partial = b ] : b \in BOOLEAN }

\* result = model.predict(...): the call, the test of self._loaded and of the
\* input, up to the pipeline call in which predict() blocks
run_thread_predict(i) ==
    /\ ops[i].kind = "run"
    /\ ops[i].pc = "predict"
    /\ ops[i].todo = <<>>
    /\ LET op == IF ops[i].target = "text_to_video" THEN worker_call(ops[i], "predict")
                 ELSE worker_call(read_path(ops[i], selected_image_path), "predict")
           out == IF ops[i].target = "text_to_video"
                  THEN video_predict(loaded["text_to_video"], num_frames, fps,
                                     predict_input(op), PipelineFails)
                  ELSE image_predict(loaded["image"], top_k, predict_input(op),
                                     PipelineFails)
       IN  ops' = [ ops EXCEPT ![i] =
               IF out.pipeline_calls = 0 THEN raised(op, out.msg)
               ELSE [ op EXCEPT !.pc = "pipeline" ] ]
    /\ UNCHANGED <<loaded, model, disk, callervars, uivars, models_loaded, selected_model,
                   selected_image_path, text_input, progress_bar, timers>>

\* predict() in its pipeline call: self._model(image) and the formatting of
\* the results, or self._model(prompt=...) and _create_animation_frames; the
\* test of self._loaded lies behind
predict_pipeline(i, env) ==
    /\ ops[i].kind = "run"
    /\ ops[i].pc = "pipeline"
    /\ LET out == IF ops[i].target = "text_to_video"
                  THEN video_try(num_frames, fps, predict_input(ops[i]), env)
                  ELSE image_try(top_k, predict_input(ops[i]), env)
       IN  ops' = [ ops EXCEPT ![i] =
               IF out.kind = "raise" THEN raised(ops[i], out.msg)
               ELSE IF ops[i].target = "text_to_video" THEN [ ops[i] EXCEPT !.pc = "mimsave" ]
               ELSE scheduled(ops[i], image_end_events, "done") ]
    /\ UNCHANGED <<loaded, model, disk, callervars, uivars, models_loaded, selected_model,
                   selected_image_path, text_input, progress_bar, timers>>

\* predict() in imageio.mimsave(output_file, ...): the video file is written
predict_mimsave(i, env) ==
    /\ ops[i].kind = "run"
    /\ ops[i].pc = "mimsave"
    /\ LET out == video_try(num_frames, fps, predict_input(ops[i]), env)
       IN  /\ disk' = write_files(disk, [ out.files EXCEPT !.preview = "untouched" ])
           /\ ops' = [ ops EXCEPT ![i] =
                   IF out.kind = "raise" THEN raised(ops[i], out.msg)
                   ELSE [ ops[i] EXCEPT !.pc = "save" ] ]
    /\ UNCHANGED <<loaded, model, callervars, uivars, models_loaded, selected_model,
                   selected_image_path, text_input, progress_bar, timers>>

\* predict() in frames[0].save(preview_file): the preview is written, and
\* predict() returns result_info
predict_save(i, env) ==
    /\ ops[i].kind = "run"
    /\ ops[i].pc = "save"
    /\ LET out == video_try(num_frames, fps, predict_input(ops[i]), env)
       IN  /\ disk' = write_files(disk, [ out.files EXCEPT !.video = "untouched" ])
           /\ ops' = [ ops EXCEPT ![i] =
                   IF out.kind = "raise" THEN raised(ops[i], out.msg)
                   \* line 724, the first after() call of video_end_events
                   ELSE scheduled(ops[i], << Head(video_end_events(FALSE)) >>, "preview") ]
    /\ UNCHANGED <<loaded, model, callervars, uivars, models_loaded, selected_model,
                   selected_image_path, text_input, progress_bar, timers>>

\* the preview of a video run: os.path.exists(result['preview']) and
\* Image.open(result['preview']); ok: whether the file opens
run_thread_preview(i, ok) ==
    /\ ops[i].kind = "run"
    /\ ops[i].pc = "preview"
    /\ ops[i].todo = <<>>
    /\ LET preview_exists == disk.preview # "absent"
       IN  ops' = [ ops EXCEPT ![i] =
               IF preview_exists /\ ~ok
               THEN raised(ops[i], "cannot open the image")
               ELSE scheduled(ops[i], Tail(video_end_events(preview_exists)), "done") ]
    /\ UNCHANGED <<loaded, model, disk, callervars, uivars, models_loaded, selected_model,
                   selected_image_path, text_input, progress_bar, timers>>

\* the rest of run_thread, and its except handler: one of the after() calls
run_thread_after(i) ==
    /\ ops[i].kind = "run"
    /\ thread_after(i)

\* a mutant of clear_all: the "Clear" button also forgets the loaded models
clear_all_unloads ==
    /\ showwarning = NoWarning
    /\ text_input' = IF text_input.state = "normal"
                     THEN [ text_input EXCEPT !.chars = DefaultPrompt ]
                     ELSE text_input
    /\ selected_image_path' = NoPath
    /\ progress_bar' = 0
    /\ models_loaded' = [ a \in Adapters |-> FALSE ]
    /\ output_display' = <<>>
    /\ UNCHANGED <<loaded, model, disk, callervars, selected_model, ops, timers,
                   showwarning>>

\* _clear_all: the prompt box is reset (a disabled Text widget ignores delete
\* and insert), the selected path is forgotten, the bar is put back to 0
clear_all ==
    /\ showwarning = NoWarning
    /\ text_input' = IF text_input.state = "normal"
                     THEN [ text_input EXCEPT !.chars = DefaultPrompt ]
                     ELSE text_input
    /\ selected_image_path' = NoPath
    /\ progress_bar' = 0
    /\ output_display' = <<>>
    /\ UNCHANGED <<loaded, model, disk, callervars, models_loaded, selected_model,
                   ops, timers, showwarning>>

\* the user closes the warning dialog: messagebox.showwarning returns, and
\* _run_model with it; the dialog is modal, so that no other request of the
\* user is handled before
close_warning ==
    /\ showwarning # NoWarning
    /\ showwarning' = NoWarning
    /\ UNCHANGED <<loaded, model, disk, callervars, models_loaded, selected_model,
                   selected_image_path, text_input, progress_bar, ops, timers,
                   output_display>>

\* _update_progress: the new value of the progress bar
update_progress(percentage) == percentage

\* the main loop executes the callback of the next timer to expire
mainloop(j) ==
    /\ due(timers, j)
    /\ LET t == timers[j]
           ev == ops[t.op].events[t.idx]
           op == [ ops[t.op] EXCEPT !.applied = Append(@, t.idx) ]
       IN  /\ ops' = [ ops EXCEPT ![t.op] = IF ev.type = "info"
                                            THEN called(op, "get_model_info", "main")
                                            ELSE op ]
           /\ progress_bar' = IF ev.type = "progress" THEN update_progress(ev.pct)
                              ELSE progress_bar
           /\ output_display' = IF ev.type = "log" THEN insert_end(output_display, ev.msg)
                                ELSE output_display
    /\ timers' = [ k \in 1..(Len(timers) - 1) |-> IF k < j THEN timers[k] ELSE timers[k + 1] ]
    /\ UNCHANGED <<loaded, model, disk, callervars, models_loaded, selected_model,
                   selected_image_path, text_input, showwarning>>

NextApp ==
    \/ \E name \in ComboValues : select_model(name)
    \/ \E t \in TypedTexts : edit_prompt(t)
    \/ \E file_path \in ImagePaths \cup {""} : browse_image(file_path)
    \/ load_selected_model
    \/ \E model_type \in MenuModelTypes : load_specific_model(model_type)
    \/ \E model_num \in {1, 2} : run_model_accepted(model_num)
    \/ \E i \in 1..Len(ops) : load_thread_begin(i)
    \/ \E i \in 1..Len(ops) : \E ok \in BOOLEAN : load_model_async_call(i, ok)
    \/ \E i \in 1..Len(ops) : \E ok \in BOOLEAN : load_model_async_to_device(i, ok)
    \/ \E i \in 1..Len(ops) : load_model_async_return(i)
    \/ \E i \in 1..Len(ops) : load_model_async_store(i)
    \/ \E i \in 1..Len(ops) : load_thread_end(i)
    \/ \E i \in 1..Len(ops) : run_thread_begin(i)
    \/ \E i \in 1..Len(ops) : \E ok \in BOOLEAN : run_thread_open(i, ok)
    \/ \E i \in 1..Len(ops) : run_thread_predict(i)
    \/ \E i \in 1..Len(ops) : \E env \in AppEnvs(ops[i].target) : predict_pipeline(i, env)
    \/ \E i \in 1..Len(ops) : \E env \in ExportEnvs : predict_mimsave(i, env)
    \/ \E i \in 1..Len(ops) : \E env \in PreviewEnvs : predict_save(i, env)
    \/ \E i \in 1..Len(ops) : \E ok \in BOOLEAN : run_thread_preview(i, ok)
    \/ \E i \in 1..Len(ops) : run_thread_after(i)
    \/ \E j \in 1..Len(timers) : mainloop(j)

SpecApp == Init /\ [][NextApp]_vars

\* the application with the rejected run requests and their warning dialog
NextGate ==
    \/ NextApp
    \/ \E model_num \in {1, 2} : run_model(model_num)
    \/ close_warning

SpecGate == Init /\ [][NextGate]_vars

\* the application with the "Clear" button.  The third-party calls of a run
\* and the move of the pipeline to the device succeed here (SpecApp and
\* SpecGate run them with their failures); a run still fails, and its except
\* handler runs, when the button has taken away the image it was to use
DeskEnvs(a) == AppEnvs(a) \ { PipelineFails }

NextDesk ==
    \/ \E name \in ComboValues : select_model(name)
    \/ \E t \in TypedTexts : edit_prompt(t)
    \/ \E file_path \in ImagePaths \cup {""} : browse_image(file_path)
    \/ load_selected_model
    \/ \E model_type \in MenuModelTypes : load_specific_model(model_type)
    \/ \E model_num \in {1, 2} : run_model_accepted(model_num)
    \/ clear_all
    \/ \E i \in 1..Len(ops) : load_thread_begin(i)
    \/ \E i \in 1..Len(ops) : \E ok \in BOOLEAN : load_model_async_call(i, ok)
    \/ \E i \in 1..Len(ops) : load_model_async_to_device(i, TRUE)
    \/ \E i \in 1..Len(ops) : load_model_async_return(i)
    \/ \E i \in 1..Len(ops) : load_model_async_store(i)
    \/ \E i \in 1..Len(ops) : load_thread_end(i)
    \/ \E i \in 1..Len(ops) : run_thread_begin(i)
    \/ \E i \in 1..Len(ops) : run_thread_open(i, TRUE)
    \/ \E i \in 1..Len(ops) : run_thread_predict(i)
    \/ \E i \in 1..Len(ops) : \E env \in DeskEnvs(ops[i].target) : predict_pipeline(i, env)
    \/ \E i \in 1..Len(ops) : predict_mimsave(i, NullEnv)
    \/ \E i \in 1..Len(ops) : predict_save(i, NullEnv)
    \/ \E i \in 1..Len(ops) : run_thread_preview(i, TRUE)
    \/ \E i \in 1..Len(ops) : run_thread_after(i)
    \/ \E j \in 1..Len(timers) : mainloop(j)

SpecDesk == Init /\ [][NextDesk]_vars

(***************************************************************************)
(* Properties of the application, checked under SpecApp.                   *)
(***************************************************************************)
Ops == 1..Len(ops)

\* the worker of operation i has not finished
InFlight(i) == ops[i].pc # "done"

\* the 100% event, the error event, and the later reset of the bar to "Ready"
IsSuccessEvent(ev) == ev.type = "progress" /\ ev.pct = 100
IsErrorEvent(ev) == ev.type = "progress" /\ ev.msg \in {"Error occurred", "Loading failed"}
IsReset(ev) == ev.type = "progress" /\ ev.msg = "Ready"

\* the Progress Events of an operation up to its terminal event, in order
ProgressEvents(op) ==
    SelectSeq(op.events, LAMBDA ev : ev.type = "progress" /\ ~IsReset(ev))

\* the callbacks of operation i that the main loop has executed
Delivered(i) == { ops[i].events[ops[i].applied[k]] : k \in DOMAIN ops[i].applied }

\* operation i has ended: its worker has finished and every callback it
\* scheduled with after(0, ...) has been executed
Ended(i) ==
    /\ ~InFlight(i)
    /\ \A j \in DOMAIN timers : timers[j].op = i => timers[j].ms > 0

\* C15 as stated: at most one operation is in flight per adapter.
C15_OneInFlightPerAdapter ==
    \A a \in Adapters :
        Cardinality({ i \in Ops : ops[i].target = a /\ InFlight(i) }) <= 1

\* C16 as stated: an operation that has ended has delivered its final
\* Progress Event, the 100% event when it succeeded and an error event when
\* it failed.
C16_FinalEventDelivered ==
    \A i \in Ops :
        Ended(i) =>
            IF ops[i].failed
            THEN \E ev \in Delivered(i) : IsErrorEvent(ev)
            ELSE \E ev \in Delivered(i) : IsSuccessEvent(ev)

\* C17 as stated: when the adapter call of an operation failed, its worker
\* schedules an error Progress Event and no 100% success event.
C17_FailureBecomesErrorEvent ==
    \A i \in Ops :
        (~InFlight(i) /\ ops[i].failed) =>
            /\ \E k \in DOMAIN ops[i].events : IsErrorEvent(ops[i].events[k])
            /\ \A k \in DOMAIN ops[i].events : ~IsSuccessEvent(ops[i].events[k])

\* C18 as stated: the percentages of an operation's Progress Events never
\* decrease up to and including its terminal event, the error event included.
C18_MonotoneThroughTerminal ==
    \A i \in Ops :
        LET p == ProgressEvents(ops[i])
        IN  \A j \in DOMAIN p : \A k \in DOMAIN p : j < k => p[j].pct <= p[k].pct

\* C18 amended: the percentages never decrease up to and including the 100%
\* event, and on the failure path up to the error event, which comes last
\* and puts the bar back to 0.
C18_MonotoneUntilError ==
    \A i \in Ops :
        LET p == ProgressEvents(ops[i])
        IN  /\ \A j \in DOMAIN p : \A k \in DOMAIN p :
                   (j < k /\ ~IsErrorEvent(p[k])) => p[j].pct <= p[k].pct
            /\ \A k \in DOMAIN p :
                   IsErrorEvent(p[k]) => (k = Len(p) /\ p[k].pct = 0)
            /\ \A k \in DOMAIN p :
                   IsSuccessEvent(p[k]) => k = Len(p)

\* a run that failed in predict after it had reported 50%
C18_Witness ==
    \E i \in Ops :
        /\ ops[i].kind = "run"
        /\ ~InFlight(i)
        /\ ops[i].failed
        /\ \E k \in DOMAIN ops[i].events : ops[i].events[k].pct = 50
        /\ IsErrorEvent(ops[i].events[Len(ops[i].events)])

\* C19: the main loop executes the callbacks of one operation in the order
\* in which the operation scheduled them.
C19_AppliedInEmissionOrder ==
    \A i \in Ops : \A k \in DOMAIN ops[i].applied : ops[i].applied[k] = k

\* a video run dispatched while callbacks of the load were still pending:
\* all ten callbacks of the run have been executed, the delayed reset included
C19_Witness ==
    /\ Len(ops) = 2
    /\ ops[2].kind = "run"
    /\ ops[2].target = "text_to_video"
    /\ ~ops[2].failed
    /\ Len(ops[2].events) > 8
    /\ Len(ops[2].applied) = Len(ops[2].events)
    /\ ops[1].applied[Len(ops[1].applied)] > ops[2].applied[1]

\* C20 as stated: no worker thread reads or writes a widget itself.
C20_WorkerNeverTouchesWidgets ==
    \A i \in Ops : ops[i].widgets = {}

\* the worker of run i has reported 50%, its last after() call before predict()
ReachedPredict(i) == \E k \in DOMAIN ops[i].events : ops[i].events[k].pct = 50

\* the calls of method made for operation i
Calls(i, method) == { k \in DOMAIN ops[i].calls : ops[i].calls[k].method = method }

\* C21: every load_model() and every predict() is executed by a worker
\* thread, never by the main thread: the worker of a load that has passed
\* load_model_async has called load_model() once, the worker of a run that
\* has passed the call has called predict() once, and no such call is made
\* in the main thread.
C21_AdapterCallsOnWorker ==
    \A i \in Ops :
        /\ \A k \in DOMAIN ops[i].calls :
               ops[i].calls[k].method \in {"load_model", "predict"} =>
                   ops[i].calls[k].thread = "worker"
        /\ (ops[i].kind = "load" /\ ops[i].pc \notin {"start", "load_model"}) =>
               (Cardinality(Calls(i, "load_model")) = 1 /\ Calls(i, "predict") = {})
        /\ (ops[i].kind = "run" /\ ops[i].pc # "predict" /\ ReachedPredict(i)) =>
               Cardinality(Calls(i, "predict")) = 1
        /\ ops[i].kind = "run" => Calls(i, "load_model") = {}

\* a load and a run have made their calls, and the main thread has
\* refreshed the model info
C21_Witness ==
    /\ Len(ops) = 2
    /\ ops[1].kind = "load"
    /\ Calls(1, "load_model") # {}
    /\ \E k \in Calls(1, "get_model_info") : ops[1].calls[k].thread = "main"
    /\ ops[2].kind = "run"
    /\ ops[2].pc = "done"
    /\ ~ops[2].failed
    /\ \E k \in Calls(2, "predict") : ops[2].calls[k].thread = "worker"

\* the worker of operation i takes a step
WorkerStep(i) ==
    /\ i <= Len(ops')
    /\ (ops'[i].pc # ops[i].pc \/ ops'[i].todo # ops[i].todo)

\* where the worker of a load is while it executes load_model()
InLoadModel == {"load_model", "load_to_device", "load_done", "load_except"}

\* C22: the loaded flag, the handle and the models_loaded entry of an adapter
\* are written only by the worker of a load of that adapter: the first two
\* when it executes load_model(), the third when it stores the outcome; the
\* main thread writes none of them, and neither does the worker of a run.
C22_LoadWorkerOnlyWriter ==
    [][ /\ \A a \in Adapters :
               /\ (loaded'[a] # loaded[a] \/ model'[a] # model[a]) =>
                      \E i \in Ops : /\ ops[i].kind = "load" /\ ops[i].target = a
                                     /\ ops[i].pc \in InLoadModel /\ WorkerStep(i)
               /\ models_loaded'[a] # models_loaded[a] =>
                      \E i \in Ops : /\ ops[i].kind = "load" /\ ops[i].target = a
                                     /\ ops[i].pc = "store" /\ WorkerStep(i)
        /\ (\A i \in Ops : ~WorkerStep(i)) => UNCHANGED <<loaded, model, models_loaded>>
        /\ (\E i \in Ops : ops[i].kind = "run" /\ WorkerStep(i)) =>
               UNCHANGED <<loaded, model, models_loaded>> ]_vars

\* a load has written the three, a run has called predict(), and the log
\* has been cleared since
C22_Witness ==
    /\ Len(ops) = 2
    /\ ops[1].kind = "load" /\ ops[1].pc = "done" /\ ops[1].success
    /\ ops[2].kind = "run" /\ ops[2].pc = "done" /\ Calls(2, "predict") # {}
    /\ output_display = <<>>
    /\ loaded[client] /\ model[client] = "ready" /\ models_loaded[client]

\* the adapter a load request names: the video adapter for the combobox entry
\* "Text-to-Video" and for the menu entry "Load Text-to-Image"
Named(name) ==
    IF name \in {"Text-to-Video", "Text-to-Image"} THEN "text_to_video" ELSE "image"

\* C25 as stated: a load request starts a load of the adapter it names, and
\* of no other.
C25_LoadsNamedAdapter ==
    [][ (Len(ops') = Len(ops) + 1 /\ ops'[Len(ops')].kind = "load") =>
            ops'[Len(ops')].target = Named(selected_model') ]_vars

\* C26: a run is started only when the models_loaded entry of its adapter is
\* true; the warning "Please load the model first!" is shown only when it
\* is false, and the step that shows it starts no worker, schedules no
\* callback and leaves the output log, the bar and the adapters alone.
C26_GateShut ==
    [][ /\ (Len(ops') = Len(ops) + 1 /\ ops'[Len(ops')].kind = "run") =>
               /\ models_loaded[ops'[Len(ops')].target]
               /\ showwarning' = NoWarning
        /\ (showwarning' # showwarning /\ showwarning' # NoWarning) =>
               /\ ~models_loaded[client]
               /\ showwarning' = "Please load the model first!"
               /\ UNCHANGED <<ops, timers, output_display, progress_bar, loaded, model,
                              disk, models_loaded>> ]_vars

\* the warning is on screen after a load that failed
C26_Witness ==
    /\ showwarning = "Please load the model first!"
    /\ Len(ops) = 1
    /\ ops[1].kind = "load" /\ ops[1].pc = "done" /\ ~ops[1].success
    /\ ~models_loaded[client]
    /\ timers = <<>>

\* C27 as stated: whenever no load of an adapter is in flight, its
\* models_loaded entry equals its loaded flag.
C27_GateAgreesWithAdapter ==
    \A a \in Adapters :
        (\A i \in Ops : (ops[i].kind = "load" /\ ops[i].target = a) => ~InFlight(i)) =>
            models_loaded[a] = loaded[a]

\* C28 as stated: the worker of an image run reads the same path each time:
\* for the check, for Image.open() and for predict().
C28_OnePathPerRun ==
    \A i \in Ops :
        \A j \in DOMAIN ops[i].paths : \A k \in DOMAIN ops[i].paths :
            ops[i].paths[j] = ops[i].paths[k]

====
